---- MODULE Spec2Model ----
(***************************************************************************)
(* A model of the matchit pattern matcher (develop/matchit/patterns.h):    *)
(* identifier cells (Id<Type>::Block), the recursive matcher matchPattern  *)
(* with its per-kind PatternTraits<...>::matchPatternImpl / processIdImpl, *)
(* and the clause driver matchPatterns.                                    *)
(***************************************************************************)
EXTENDS Integers, Sequences, FiniteSets, TLC

(***************************************************************************)
(* Bounds of the model.                                                    *)
(***************************************************************************)
\* number of driver calls made on the same user-declared cells
MaxCalls == 2
\* scalar scrutinees and tuple elements are drawn from 1..MaxVal
MaxVal == 3
\* iterable scrutinees have at most MaxLen elements
MaxLen == 3

(***************************************************************************)
(* Values.  Every value is a record so that any two values can be compared.*)
(* "int" is a scalar; "tuple" is a std::tuple/std::pair (tuple-like, not   *)
(* an array); "array" is a std::array (tuple-like and isArrayV); "range"   *)
(* is a container or a Subrange (isRangeV, not tuple-like).                *)
(***************************************************************************)
IntV(n) == [t |-> "int", n |-> n]
TupV(es) == [t |-> "tuple", e |-> es]
ArrV(es) == [t |-> "array", e |-> es]
RngV(es) == [t |-> "range", e |-> es]

\* std::is_scalar_v
is_scalar(v) == v.t = "int"
\* isTupleLikeV: std::tuple_size is defined for tuples, pairs and arrays
isTupleLikeV(v) == v.t \in {"tuple", "array"}
\* isArrayV
isArrayV(v) == v.t = "array"
\* isRangeV
isRangeV(v) == v.t \in {"array", "range"}

\* A forwarded argument `Value &&value`: the value and whether Value is an
\* lvalue reference type.
Arg(v, lref) == [v |-> v, lref |-> lref]

(***************************************************************************)
(* Identifier cells: Id<Type>::Block.  mVariant is                         *)
(* std::variant<std::monostate, Type, Type const *>.                       *)
(***************************************************************************)
CellNames == {"a", "b", "s"}

monostate == [alt |-> "monostate"]
Owned(v) == [alt |-> "value", x |-> v]
Borrowed(v) == [alt |-> "pointer", x |-> v]

\* Block{} : aggregate initialisation, empty variant and mDepth = 0
FreshBlock == [mVariant |-> monostate, mDepth |-> 0]
FreshCells == [c \in CellNames |-> FreshBlock]

\* Block::hasValue
hasValue(block) == block.mVariant.alt # "monostate"

\* Block::value on a block that has a value
internalValue(block) == block.mVariant.x

\* an equality that accepts any two values
equal_AlwaysTrue(lhs, rhs) == TRUE

\* IdTraits<Type>::equal
equal(lhs, rhs) == lhs = rhs

\* StorePointer<Type, Value>: an lvalue reference to a non-scalar
StorePointer(arg) == arg.lref /\ ~is_scalar(arg.v)

\* IdUtil::bindValue (both overloads): only the variant is written
bindValue(block, arg) ==
    [block EXCEPT !.mVariant = IF StorePointer(arg) THEN Borrowed(arg.v)
                                                     ELSE Owned(arg.v)]

\* a reset that lowers the recorded depth but keeps the stored value
reset_KeepsValue(block, depth) ==
    IF block.mDepth - depth >= 0
    THEN [block EXCEPT !.mDepth = depth]
    ELSE block

\* a reset that clears whatever the recorded depth
reset_IgnoresDepth(block, depth) == [mVariant |-> monostate, mDepth |-> depth]

\* a reset that clears the value but keeps the recorded depth
reset_KeepsDepth(block, depth) ==
    IF block.mDepth - depth >= 0
    THEN [block EXCEPT !.mVariant = monostate]
    ELSE block

\* a reset that spares a cell recorded at exactly the given depth
reset_StrictDepth(block, depth) ==
    IF block.mDepth - depth > 0
    THEN [mVariant |-> monostate, mDepth |-> depth]
    ELSE block

\* Block::reset
reset(block, depth) ==
    IF block.mDepth - depth >= 0
    THEN [mVariant |-> monostate, mDepth |-> depth]
    ELSE block

\* a confirm without the case of a recorded depth of 0
confirm_OnlyLowers(block, depth) ==
    IF block.mDepth > depth
    THEN [block EXCEPT !.mDepth = depth]
    ELSE block

\* Block::confirm (the assert is checked separately, it changes no state)
confirm(block, depth) ==
    IF block.mDepth > depth \/ block.mDepth = 0
    THEN [block EXCEPT !.mDepth = depth]
    ELSE block

\* enum class IdProcess
kCANCEL == "kCANCEL"
kCONFIRM == "kCONFIRM"

\* PatternTraits<Id<Type>>::processIdImpl
processIdImplId(block, depth, idProcess) ==
    IF idProcess = kCANCEL THEN reset(block, depth) ELSE confirm(block, depth)

(***************************************************************************)
(* Patterns: the tagged tree built by the pattern constructors.            *)
(***************************************************************************)
\* class Wildcard, the constant _
Wildcard == [k |-> "wildcard"]
\* a plain value used as a pattern (primary PatternTraits template)
Lit(n) == [k |-> "literal", v |-> IntV(n)]
\* an Id<Type> used as a pattern; c names the Block it refers to
IdP(c) == [k |-> "id", c |-> c]
\* or_(patterns...)
or_(ps) == [k |-> "or", ps |-> ps]
\* and_(patterns...)
and_(ps) == [k |-> "and", ps |-> ps]
\* not_(pattern)
not_(p) == [k |-> "not", p |-> p]
\* meet(pred)
meet(f) == [k |-> "meet", f |-> f]
\* app(unary, pattern)
app(f, p) == [k |-> "app", f |-> f, p |-> p]
\* ds(patterns...)
ds(ps) == [k |-> "ds", ps |-> ps]
\* the constant ooo
ooo == [k |-> "ooo"]
\* ooo(id): OooBinder holding a copy of the Id, which shares its Block
OooBinder(c) == [k |-> "ooobinder", c |-> c]
\* pattern | when(pred): PostCheck(pattern, pred)
PostCheck(p, g) == [k |-> "postcheck", p |-> p, g |-> g]

(***************************************************************************)
(* User callables.  A Meet predicate and an App function get the value, a  *)
(* when() thunk and a clause handler read identifier cells.  A callable    *)
(* either produces a result or raises.                                     *)
(***************************************************************************)
\* does invoking the Meet/App callable f on value v raise
UnaryThrows(f, v) == f = "raise"

\* the Meet predicates
MeetResult(f, v) ==
    CASE f = "odd" -> v.n % 2 = 1
      [] f = "true" -> TRUE
      [] OTHER -> FALSE

\* the App functions: "inc" returns a scalar, "dup" a by-value pair,
\* "none" a by-value empty Subrange, "two" the scalar 2, "self" a reference
\* to its argument
AppResult(f, v) ==
    CASE f = "inc" -> IntV(v.n + 1)
      [] f = "two" -> IntV(2)
      [] f = "dup" -> TupV(<<v, v>>)
      [] f = "none" -> RngV(<<>>)
      [] OTHER -> v

\* std::is_lvalue_reference_v<AppResult<Value>>
AppResultIsLvalueRef(f) == f = "self"

\* Id::value() read by a thunk or handler: raises on an empty cell
ValueThrows(block) == ~hasValue(block)

\* a mutableValue that raises on an empty cell only
MutableValueThrows_OnlyEmpty(block) == ~hasValue(block)

\* Id::move() / Block::mutableValue(): raises unless the variant holds a Type
MutableValueThrows(block) == block.mVariant.alt # "value"

\* a when() thunk: "gtrue"/"gfalse" are constants, "raise" raises,
\* "aodd" is `a.value() % 2 == 1`
PredThrows(g, cells) ==
    \/ g = "raise"
    \/ g = "aodd" /\ ValueThrows(cells["a"])

PredResult(g, cells) ==
    CASE g = "gtrue" -> TRUE
      [] g = "aodd" -> internalValue(cells["a"]).n % 2 = 1
      [] OTHER -> FALSE

(***************************************************************************)
(* processId: the traversal that visits every Id of a pattern.             *)
(***************************************************************************)
RECURSIVE processId(_, _, _, _)
RECURSIVE processIdTuple(_, _, _, _, _)

\* the fold (processId(patterns, depth, idProcess), ...) of Or, And and Ds
processIdTuple(ps, i, depth, idProcess, cells) ==
    IF i > Len(ps) THEN cells
    ELSE processIdTuple(ps, i + 1, depth, idProcess,
                        processId(ps[i], depth, idProcess, cells))

\* processId: dispatch to PatternTraits<Pattern>::processIdImpl
processId(pattern, depth, idProcess, cells) ==
    CASE pattern.k = "id" ->
           [cells EXCEPT ![pattern.c] = processIdImplId(@, depth, idProcess)]
      [] pattern.k = "ooobinder" ->
           processId(IdP(pattern.c), depth, idProcess, cells)
      [] pattern.k \in {"or", "and", "ds"} ->
           processIdTuple(pattern.ps, 1, depth, idProcess, cells)
      [] pattern.k \in {"not", "app", "postcheck"} ->
           processId(pattern.p, depth, idProcess, cells)
      [] OTHER -> cells

\* the identifier cells a pattern refers to
RECURSIVE IdsOf(_)
IdsOf(pattern) ==
    CASE pattern.k \in {"id", "ooobinder"} -> {pattern.c}
      [] pattern.k \in {"or", "and", "ds"} ->
           UNION {IdsOf(pattern.ps[i]) : i \in 1..Len(pattern.ps)}
      [] pattern.k \in {"not", "app", "postcheck"} -> IdsOf(pattern.p)
      [] OTHER -> {}

(***************************************************************************)
(* The matcher.  A matcher state st carries the identifier cells, the      *)
(* context of the clause attempt, the record of what has been evaluated,   *)
(* the boolean result of the last call and whether an exception is         *)
(* unwinding the stack.                                                    *)
(***************************************************************************)
\* auto context = typename ContextTrait<TypeTuple>::ContextT{};
NewMatch(cells) ==
    [cells |-> cells, ctx |-> <<>>, log |-> <<>>, res |-> FALSE, exc |-> FALSE]

\* an emplace_back that writes over the last element once there is one
emplace_back_Overwrites(st, v) ==
    [st EXCEPT !.ctx = IF @ = <<>> THEN <<v>> ELSE [@ EXCEPT ![Len(@)] = v]]

\* Context::emplace_back
emplace_back(st, v) == [st EXCEPT !.ctx = Append(@, v)]

\* Context::back
back(st) == st.ctx[Len(st.ctx)]

Returns(st, res) == [st EXCEPT !.res = res]
Raises(st, f) ==
    [st EXCEPT !.exc = TRUE, !.res = FALSE,
               !.log = Append(@, [e |-> "throw", f |-> f])]
Invoked(st, kind, f) ==
    [st EXCEPT !.log = Append(@, [e |-> "call", kind |-> kind, f |-> f])]

\* a matchValue that binds the value whatever the cell holds
matchValue_Overwrites(st, c, value) ==
    [st EXCEPT !.cells[c] = bindValue(@, value),
               !.log = Append(@, [e |-> "bind", c |-> c, v |-> value.v]),
               !.res = TRUE]

\* Id::matchValue
matchValue(st, c, value) ==
    IF hasValue(st.cells[c])
    THEN Returns(st, equal(internalValue(st.cells[c]), value.v))
    ELSE [st EXCEPT !.cells[c] = bindValue(@, value),
                    !.log = Append(@, [e |-> "bind", c |-> c, v |-> value.v]),
                    !.res = TRUE]

\* findOooIdx: the (0-based) index of the Ooo or OooBinder among the patterns
RECURSIVE findOooIdxImpl(_, _)
findOooIdxImpl(ps, i) ==
    IF i > Len(ps) THEN 0
    ELSE (IF ps[i].k \in {"ooo", "ooobinder"} THEN i - 1 ELSE 0)
         + findOooIdxImpl(ps, i + 1)

findOooIdx(ps) == findOooIdxImpl(ps, 1)

\* nbOooOrBinderV
nbOooOrBinderV(ps) ==
    Cardinality({i \in 1..Len(ps) : ps[i].k \in {"ooo", "ooobinder"}})

\* isOooBinderV of the pattern at (0-based) index idx
isBinderAt(ps, idx) == ps[idx + 1].k = "ooobinder"

\* the Subrange over elements [first, first + size) (0-based) of a sequence
makeSubrange(es, first, size) ==
    RngV([i \in 1..size |-> es[first + i]])

RECURSIVE matchPattern(_, _, _, _)
RECURSIVE matchPatternImpl(_, _, _, _)
RECURSIVE OrImpl(_, _, _, _, _)
RECURSIVE AndImpl(_, _, _, _, _)
RECURSIVE matchPatternMultiple(_, _, _, _, _, _, _, _)
RECURSIVE matchPatternRange(_, _, _, _, _, _, _, _)

\* an Or that evaluates every alternative, as with | in place of ||
OrImpl_NoShortCircuit(value, ps, i, depth, st) ==
    IF i > Len(ps) THEN Returns(st, FALSE)
    ELSE LET arg == Arg(value.v, IF i < Len(ps) THEN TRUE ELSE value.lref)
             r == matchPattern(arg, ps[i], depth + 1, st)
             rest == OrImpl(value, ps, i + 1, depth, r)
         IN  IF r.exc THEN r
             ELSE IF rest.exc THEN rest
             ELSE Returns(rest, r.res \/ rest.res)

\* PatternTraits<Or<Patterns...>>::matchPatternImpl: the fold
\* (matchPattern(value, patterns, depth + 1, context) || ...) continued by
\* the last alternative, which alone receives the forwarded value
OrImpl(value, ps, i, depth, st) ==
    IF i > Len(ps) THEN Returns(st, FALSE)
    ELSE LET arg == Arg(value.v, IF i < Len(ps) THEN TRUE ELSE value.lref)
             r == matchPattern(arg, ps[i], depth + 1, st)
         IN  IF r.exc \/ r.res THEN r
             ELSE OrImpl(value, ps, i + 1, depth, r)

\* an And that evaluates each child on cells of its own
AndImpl_SeparateCells(value, ps, i, depth, st) ==
    IF i > Len(ps) THEN Returns(st, TRUE)
    ELSE LET arg == Arg(value.v, IF i < Len(ps) THEN TRUE ELSE value.lref)
             r == matchPattern(arg, ps[i], depth + 1,
                               [st EXCEPT !.cells = FreshCells])
         IN  IF r.exc \/ ~r.res THEN r
             ELSE AndImpl(value, ps, i + 1, depth, r)

\* PatternTraits<And<Patterns...>>::matchPatternImpl: the fold
\* (matchPattern(value, patterns, depth + 1, context) && ...) continued by
\* the last child
AndImpl(value, ps, i, depth, st) ==
    IF i > Len(ps) THEN Returns(st, TRUE)
    ELSE LET arg == Arg(value.v, IF i < Len(ps) THEN TRUE ELSE value.lref)
             r == matchPattern(arg, ps[i], depth + 1, st)
         IN  IF r.exc \/ ~r.res THEN r
             ELSE AndImpl(value, ps, i + 1, depth, r)

\* a matchPatternMultiple that goes on after a pattern has failed, as with
\* & in place of &&
matchPatternMultiple_EvaluatesAll(value, ps, depth, st, valueStartIdx, patternStartIdx, size, i) ==
    IF i >= size THEN Returns(st, TRUE)
    ELSE LET arg == Arg(value.v.e[i + valueStartIdx + 1], value.lref)
             r == matchPattern(arg, ps[i + patternStartIdx + 1], depth + 1, st)
             rest == matchPatternMultiple(value, ps, depth, r, valueStartIdx,
                                          patternStartIdx, size, i + 1)
         IN  IF r.exc THEN r
             ELSE IF rest.exc THEN rest
             ELSE Returns(rest, r.res /\ rest.res)

\* matchPatternMultiple<valueStartIdx, patternStartIdx, size>: pattern
\* patternStartIdx + I against get<I + valueStartIdx>(valueTuple), I = i..size-1
matchPatternMultiple(value, ps, depth, st, valueStartIdx, patternStartIdx, size, i) ==
    IF i >= size THEN Returns(st, TRUE)
    ELSE LET arg == Arg(value.v.e[i + valueStartIdx + 1], value.lref)
             r == matchPattern(arg, ps[i + patternStartIdx + 1], depth + 1, st)
         IN  IF r.exc \/ ~r.res THEN r
             ELSE matchPatternMultiple(value, ps, depth, r, valueStartIdx,
                                       patternStartIdx, size, i + 1)

\* a matchPatternRange that counts from the first element of the range
\* whatever iterator it is given
matchPatternRange_FromStart(es, rangeBegin, ps, depth, st, patternStartIdx, size, i) ==
    IF i >= size THEN Returns(st, TRUE)
    ELSE LET arg == Arg(es[i + 1], TRUE)
             r == matchPattern(arg, ps[i + patternStartIdx + 1], depth + 1, st)
         IN  IF r.exc \/ ~r.res THEN r
             ELSE matchPatternRange(es, rangeBegin, ps, depth, r,
                                    patternStartIdx, size, i + 1)

\* matchPatternRange<patternStartIdx, size>: pattern patternStartIdx + I
\* against *std::next(rangeBegin, I), I = i..size-1; rangeBegin is the
\* (0-based) position of the iterator in the elements es
matchPatternRange(es, rangeBegin, ps, depth, st, patternStartIdx, size, i) ==
    IF i >= size THEN Returns(st, TRUE)
    ELSE LET arg == Arg(es[rangeBegin + i + 1], TRUE)
             r == matchPattern(arg, ps[i + patternStartIdx + 1], depth + 1, st)
         IN  IF r.exc \/ ~r.res THEN r
             ELSE matchPatternRange(es, rangeBegin, ps, depth, r,
                                    patternStartIdx, size, i + 1)

\* PatternTraits<Meet<Pred>>::matchPatternImpl
MeetImpl(value, pattern, st) ==
    LET called == Invoked(st, "meet", pattern.f)
    IN  IF UnaryThrows(pattern.f, value.v) THEN Raises(called, pattern.f)
        ELSE Returns(called, MeetResult(pattern.f, value.v))

\* an App that matches its inner pattern two levels deeper
AppImpl_SkipsADepth(value, pattern, depth, st) ==
    LET called == Invoked(st, "app", pattern.f)
        result == AppResult(pattern.f, value.v)
    IN  IF UnaryThrows(pattern.f, value.v) THEN Raises(called, pattern.f)
        ELSE IF AppResultIsLvalueRef(pattern.f) \/ is_scalar(result)
        THEN matchPattern(Arg(result, AppResultIsLvalueRef(pattern.f)),
                          pattern.p, depth + 2, called)
        ELSE LET pushed == emplace_back(called, result)
             IN  matchPattern(Arg(back(pushed), FALSE), pattern.p, depth + 2,
                              pushed)

\* PatternTraits<App<Unary, Pattern>>::matchPatternImpl
AppImpl(value, pattern, depth, st) ==
    LET called == Invoked(st, "app", pattern.f)
        result == AppResult(pattern.f, value.v)
    IN  IF UnaryThrows(pattern.f, value.v) THEN Raises(called, pattern.f)
        ELSE IF AppResultIsLvalueRef(pattern.f) \/ is_scalar(result)
        THEN matchPattern(Arg(result, AppResultIsLvalueRef(pattern.f)),
                          pattern.p, depth + 1, called)
        ELSE LET pushed == emplace_back(called, result)
             IN  matchPattern(Arg(back(pushed), FALSE), pattern.p, depth + 1,
                              pushed)

\* PatternTraits<Not<Pattern>>::matchPatternImpl
NotImpl(value, pattern, depth, st) ==
    LET r == matchPattern(value, pattern.p, depth + 1, st)
    IN  IF r.exc THEN r ELSE Returns(r, ~r.res)

\* PatternTraits<OooBinder<Pattern>>::matchPatternImpl
OooBinderImpl(value, pattern, depth, st) ==
    matchPattern(value, IdP(pattern.c), depth + 1, st)

\* a PostCheck that invokes its predicate and ignores what it returns
PostCheckImpl_IgnoresPred(value, pattern, depth, st) ==
    LET r == matchPattern(value, pattern.p, depth + 1, st)
        called == Invoked(r, "when", pattern.g)
    IN  IF r.exc \/ ~r.res THEN r
        ELSE IF PredThrows(pattern.g, r.cells) THEN Raises(called, pattern.g)
        ELSE Returns(called, TRUE)

\* PatternTraits<PostCheck<Pattern, Pred>>::matchPatternImpl
PostCheckImpl(value, pattern, depth, st) ==
    LET r == matchPattern(value, pattern.p, depth + 1, st)
        called == Invoked(r, "when", pattern.g)
    IN  IF r.exc \/ ~r.res THEN r
        ELSE IF PredThrows(pattern.g, r.cells) THEN Raises(called, pattern.g)
        ELSE Returns(called, PredResult(pattern.g, r.cells))

\* PatternTraits<Ds<Patterns...>>::matchPatternImpl, tuple-like overload
DsTupleImpl(value, ps, depth, st) ==
    IF nbOooOrBinderV(ps) = 0
    THEN matchPatternMultiple(value, ps, depth, st, 0, 0, Len(ps), 0)
    ELSE
    LET idxOoo == findOooIdx(ps)
        valLen == Len(value.v.e)
        patLen == Len(ps)
        head == matchPatternMultiple(value, ps, depth, st, 0, 0, idxOoo, 0)
        rangeSize == valLen - (patLen - 1)
        pushed == emplace_back(head,
                               makeSubrange(value.v.e, idxOoo, rangeSize))
        bound == IF isArrayV(value.v) /\ isBinderAt(ps, idxOoo)
                 THEN IF head.res
                      THEN matchPattern(Arg(back(pushed), TRUE),
                                        ps[idxOoo + 1], depth, pushed)
                      ELSE Returns(pushed, FALSE)
                 ELSE head
    IN  IF head.exc THEN head
        ELSE IF bound.exc \/ ~bound.res THEN bound
        ELSE matchPatternMultiple(value, ps, depth, bound,
                                  valLen - patLen + idxOoo + 1, idxOoo + 1,
                                  patLen - idxOoo - 1, 0)

\* a range overload that rejects every size when there is no splice
DsRangeImpl_RejectsEqualSize(value, ps, depth, st) ==
    LET nbPat == Len(ps)
        es == value.v.e
        valLen == Len(es)
    IN
    IF nbOooOrBinderV(ps) = 0
    THEN Returns(st, FALSE)
    ELSE
    IF valLen < nbPat - 1 THEN Returns(st, FALSE)
    ELSE
    LET idxOoo == findOooIdx(ps)
        head == matchPatternRange(es, 0, ps, depth, st, 0, idxOoo, 0)
        patLen == nbPat
        beginOoo == idxOoo
        rangeSize == valLen - (patLen - 1)
        pushed == emplace_back(head, makeSubrange(es, beginOoo, rangeSize))
        bound == IF isBinderAt(ps, idxOoo)
                 THEN IF head.res
                      THEN matchPattern(Arg(back(pushed), TRUE),
                                        ps[idxOoo + 1], depth, pushed)
                      ELSE Returns(pushed, FALSE)
                 ELSE head
        beginAfterOoo == beginOoo + (valLen - patLen + 1)
    IN  IF head.exc THEN head
        ELSE IF bound.exc \/ ~bound.res THEN bound
        ELSE matchPatternRange(es, beginAfterOoo, ps, depth, bound,
                               idxOoo + 1, patLen - idxOoo - 1, 0)

\* PatternTraits<Ds<Patterns...>>::matchPatternImpl, range overload
DsRangeImpl(value, ps, depth, st) ==
    LET nbPat == Len(ps)
        es == value.v.e
        valLen == Len(es)
    IN
    IF nbOooOrBinderV(ps) = 0
    THEN IF valLen # nbPat THEN Returns(st, FALSE)
         ELSE matchPatternRange(es, 0, ps, depth, st, 0, nbPat, 0)
    ELSE
    IF valLen < nbPat - 1 THEN Returns(st, FALSE)
    ELSE
    LET idxOoo == findOooIdx(ps)
        head == matchPatternRange(es, 0, ps, depth, st, 0, idxOoo, 0)
        patLen == nbPat
        beginOoo == idxOoo
        rangeSize == valLen - (patLen - 1)
        pushed == emplace_back(head, makeSubrange(es, beginOoo, rangeSize))
        bound == IF isBinderAt(ps, idxOoo)
                 THEN IF head.res
                      THEN matchPattern(Arg(back(pushed), TRUE),
                                        ps[idxOoo + 1], depth, pushed)
                      ELSE Returns(pushed, FALSE)
                 ELSE head
        beginAfterOoo == beginOoo + (valLen - patLen + 1)
    IN  IF head.exc THEN head
        ELSE IF bound.exc \/ ~bound.res THEN bound
        ELSE matchPatternRange(es, beginAfterOoo, ps, depth, bound,
                               idxOoo + 1, patLen - idxOoo - 1, 0)

\* PatternTraits<Pattern>::matchPatternImpl, by kind of pattern
matchPatternImpl(value, pattern, depth, st) ==
    CASE pattern.k = "literal" -> Returns(st, pattern.v = value.v)
      [] pattern.k \in {"wildcard", "ooo"} -> Returns(st, TRUE)
      [] pattern.k = "id" -> matchValue(st, pattern.c, value)
      [] pattern.k = "or" -> OrImpl(value, pattern.ps, 1, depth, st)
      [] pattern.k = "and" -> AndImpl(value, pattern.ps, 1, depth, st)
      [] pattern.k = "not" -> NotImpl(value, pattern, depth, st)
      [] pattern.k = "meet" -> MeetImpl(value, pattern, st)
      [] pattern.k = "app" -> AppImpl(value, pattern, depth, st)
      [] pattern.k = "ooobinder" -> OooBinderImpl(value, pattern, depth, st)
      [] pattern.k = "postcheck" -> PostCheckImpl(value, pattern, depth, st)
      [] pattern.k = "ds" /\ isTupleLikeV(value.v) ->
           DsTupleImpl(value, pattern.ps, depth, st)
      [] pattern.k = "ds" /\ ~isTupleLikeV(value.v) ->
           DsRangeImpl(value, pattern.ps, depth, st)

\* matchPattern: the implementation of the kind, then confirm or cancel
\* every Id of the pattern at this depth.  An exception leaves through the
\* call without processId being run.  Each completed call is recorded with
\* the cells at entry (before), after matchPatternImpl (mid) and at return,
\* and with the context at entry (ctx0) and at return (ctx).
matchPattern(value, pattern, depth, st) ==
    LET r == matchPatternImpl(value, pattern, depth, st)
        process == IF r.res THEN kCONFIRM ELSE kCANCEL
        after == processId(pattern, depth, process, r.cells)
    IN  IF r.exc THEN r
        ELSE [r EXCEPT !.cells = after,
                       !.log = Append(@, [e |-> "ret", pat |-> pattern,
                                          depth |-> depth, res |-> r.res,
                                          val |-> value.v,
                                          from |-> Len(st.log),
                                          before |-> st.cells,
                                          mid |-> r.cells,
                                          after |-> after,
                                          ctx0 |-> st.ctx,
                                          ctx |-> r.ctx])]

(***************************************************************************)
(* Clauses.  A PatternPair refers to a pattern and a handler.  A handler   *)
(* returns a constant, returns the value read from a cell (Id::value()),   *)
(* returns nothing, raises, or returns the value taken out of a cell       *)
(* (Id::move()).                                                           *)
(***************************************************************************)
PatternPair(pattern, handler) ==
    [k |-> "patternpair", pattern |-> pattern, handler |-> handler]

Const(n) == [h |-> "const", r |-> IntV(n), void |-> FALSE]
Read(c) == [h |-> "read", c |-> c, void |-> FALSE]
Void == [h |-> "void", void |-> TRUE]
ReadVoid(c) == [h |-> "read", c |-> c, void |-> TRUE]
Raise == [h |-> "raise", void |-> FALSE]
Move(c) == [h |-> "move", c |-> c, void |-> FALSE]

\* does the handler raise when run with these cells
HandlerThrows(handler, cells) ==
    \/ handler.h = "raise"
    \/ handler.h = "read" /\ ValueThrows(cells[handler.c])
    \/ handler.h = "move" /\ MutableValueThrows(cells[handler.c])

\* what mHandler() returns; None stands for `void`
None == [t |-> "void"]
HandlerResult(handler, cells) ==
    CASE handler.void -> None
      [] handler.h = "const" -> handler.r
      [] handler.h \in {"read", "move"} -> internalValue(cells[handler.c])
      [] OTHER -> None

\* RetType is void: statement form
RetTypeIsVoid(clauses) == \A i \in 1..Len(clauses) : clauses[i].handler.void

(***************************************************************************)
(* The capacity of the context: the number of types in                     *)
(* PatternTraits<Pattern>::AppResultTuple<Value>, computed from the        *)
(* pattern and a value of the scrutinee's type.                            *)
(***************************************************************************)
RECURSIVE AppResultTuple(_, _)
RECURSIVE AppResultTupleCat(_, _, _, _, _)

\* tuple_cat of AppResultTuple of patterns ps[from..to], pattern i taking
\* the value vs[i + shift], or the value one when vs is not a sequence
AppResultTupleCat(ps, vs, from, to, shift) ==
    IF from > to THEN 0
    ELSE AppResultTuple(ps[from], vs[from + shift])
         + AppResultTupleCat(ps, vs, from + 1, to, shift)

\* the element type of a container, as a value of that type
ElementOf(v) == IF Len(v.e) > 0 THEN v.e[1] ELSE IntV(1)

\* std::tuple_size of AppResultTuple<Value>
AppResultTuple(pattern, v) ==
    CASE pattern.k \in {"or", "and"} ->
           AppResultTupleCat(pattern.ps, [i \in 1..Len(pattern.ps) |-> v],
                             1, Len(pattern.ps), 0)
      [] pattern.k \in {"not", "postcheck"} -> AppResultTuple(pattern.p, v)
      [] pattern.k = "ooobinder" -> AppResultTuple(IdP(pattern.c), v)
      [] pattern.k = "app" ->
           (IF AppResultIsLvalueRef(pattern.f) \/ is_scalar(AppResult(pattern.f, v))
            THEN 0 ELSE 1)
           + AppResultTuple(pattern.p, AppResult(pattern.f, v))
      [] pattern.k = "ds" /\ isTupleLikeV(v) /\ nbOooOrBinderV(pattern.ps) = 0 ->
           AppResultTupleCat(pattern.ps, v.e, 1, Len(pattern.ps), 0)
      [] pattern.k = "ds" /\ isTupleLikeV(v) /\ nbOooOrBinderV(pattern.ps) = 1 ->
           LET idxOoo == findOooIdx(pattern.ps)
               diff == Len(v.e) - Len(pattern.ps)
           IN  AppResultTupleCat(pattern.ps, v.e, 1, idxOoo, 0)
               + (IF isBinderAt(pattern.ps, idxOoo) THEN 1 ELSE 0)
               + AppResultTupleCat(pattern.ps, v.e, idxOoo + 2,
                                   Len(pattern.ps), diff)
      [] pattern.k = "ds" /\ ~isTupleLikeV(v) ->
           (IF nbOooOrBinderV(pattern.ps) = 1 THEN 1 ELSE 0)
           + AppResultTupleCat(pattern.ps,
                               [i \in 1..Len(pattern.ps) |-> ElementOf(v)],
                               1, Len(pattern.ps), 0)
      [] OTHER -> 0

\* sizeof...(Ts) of ContextTrait<TypeTuple>::ContextT: the capacity of
\* mMemHolder, over the patterns of all the clauses of the call
RECURSIVE ContextCapacity(_, _, _)
ContextCapacity(cls, v, i) ==
    IF i > Len(cls) THEN 0
    ELSE AppResultTuple(cls[i].pattern, v) + ContextCapacity(cls, v, i + 1)

(***************************************************************************)
(* The match expressions the driver is run on, each with the scrutinees    *)
(* its patterns are well-typed for.  Cells a and b are Id<int>, cell s is  *)
(* an Id<Subrange>.                                                        *)
(***************************************************************************)
Ints == {IntV(n) : n \in 1..MaxVal}
Pairs == {TupV(<<x, y>>) : x \in Ints, y \in Ints}
\* the elements of arrays and containers
Elems == {IntV(1), IntV(2)}
SeqsOf(n) == [1..n -> Elems]
Arrays == UNION {{ArrV(es) : es \in SeqsOf(n)} : n \in 2..MaxLen}
Ranges == UNION {{RngV(es) : es \in SeqsOf(n)} : n \in 0..MaxLen}

aAnd2 == and_(<<IdP("a"), Lit(2)>>)

IntPrograms ==
    { <<PatternPair(Lit(1), Const(10)), PatternPair(Lit(2), Const(20)),
        PatternPair(Wildcard, Const(30))>>,
      <<PatternPair(Lit(1), Const(10)), PatternPair(Lit(2), Const(20))>>,
      <<PatternPair(Lit(1), Void), PatternPair(meet("odd"), Void)>>,
      <<PatternPair(or_(<<Lit(1), Lit(2)>>), Const(10)),
        PatternPair(Wildcard, Const(20))>>,
      <<PatternPair(IdP("a"), Read("a"))>>,
      <<PatternPair(aAnd2, Read("a")),
        PatternPair(PostCheck(IdP("a"), "aodd"), Read("a")),
        PatternPair(IdP("b"), Read("b"))>>,
      <<PatternPair(or_(<<aAnd2, not_(aAnd2)>>), Const(10))>>,
      <<PatternPair(or_(<<aAnd2, or_(<<and_(<<IdP("a"), Lit(1)>>),
                                       Wildcard>>)>>), Const(10))>>,
      <<PatternPair(not_(IdP("a")), Const(10)),
        PatternPair(not_(and_(<<IdP("a"), Lit(1)>>)), Const(20)),
        PatternPair(IdP("b"), Read("b"))>>,
      <<PatternPair(app("inc", and_(<<IdP("a"), Lit(2)>>)), Read("a")),
        PatternPair(app("dup", ds(<<IdP("a"), IdP("b")>>)), Read("b"))>>,
      <<PatternPair(app("dup", ds(<<and_(<<IdP("a"), meet("odd")>>),
                                    app("self", IdP("a"))>>)), Read("a")),
        PatternPair(Wildcard, Const(20))>>,
      <<PatternPair(or_(<<meet("odd"), app("inc", IdP("a")), meet("true")>>),
                    Const(10))>>,
      <<PatternPair(or_(<<and_(<<IdP("a"), Lit(1)>>),
                          and_(<<IdP("b"), Lit(2)>>), meet("true")>>),
                    Const(10))>>,
      <<PatternPair(and_(<<IdP("a"), meet("odd"), meet("raise")>>), Const(10)),
        PatternPair(Wildcard, Const(20))>>,
      <<PatternPair(or_(<<Lit(1), app("raise", Wildcard)>>), Const(10)),
        PatternPair(Wildcard, Const(20))>>,
      <<PatternPair(PostCheck(and_(<<IdP("a"), meet("odd")>>), "raise"),
                    Const(10)),
        PatternPair(IdP("a"), Raise)>>,
      <<PatternPair(app("self", and_(<<IdP("a"), meet("raise")>>)),
                    Const(10))>>,
      <<PatternPair(and_(<<IdP("a"), meet("odd")>>), ReadVoid("a")),
        PatternPair(Lit(2), ReadVoid("b"))>>,
      <<PatternPair(PostCheck(IdP("a"), "gfalse"), Const(10)),
        PatternPair(PostCheck(IdP("a"), "gtrue"), Read("a"))>>,
      <<PatternPair(and_(<<IdP("a"), or_(<<aAnd2, Wildcard>>)>>), Read("a"))>>,
      <<PatternPair(and_(<<IdP("a"), IdP("a")>>), Read("a"))>>,
      <<PatternPair(and_(<<IdP("a"), meet("odd")>>), Move("a")),
        PatternPair(Wildcard, Move("b"))>>,
      <<PatternPair(and_(<<app("inc", IdP("a")), app("two", IdP("a"))>>),
                    Read("a")),
        PatternPair(Wildcard, Const(20))>> }

PairPrograms ==
    { <<PatternPair(PostCheck(ds(<<IdP("a"), IdP("b")>>), "aodd"), Read("b")),
        PatternPair(ds(<<IdP("a"), IdP("a")>>), Read("a")),
        PatternPair(Wildcard, Const(30))>>,
      <<PatternPair(ds(<<IdP("a"), or_(<<aAnd2, Wildcard>>)>>), Read("a"))>>,
      <<PatternPair(ds(<<IdP("a"), Lit(1)>>), Void),
        PatternPair(ds(<<Lit(2), ooo>>), Void),
        PatternPair(ds(<<ooo, IdP("b")>>), ReadVoid("b"))>> }

ArrayPrograms ==
    { <<PatternPair(ds(<<Lit(1), OooBinder("s"), Lit(2)>>), Const(10)),
        PatternPair(ds(<<IdP("a"), ooo, IdP("b")>>), Read("b"))>>,
      <<PatternPair(ds(<<OooBinder("s"), IdP("a"), Lit(1)>>), Const(10)),
        PatternPair(ds(<<IdP("a"), OooBinder("s")>>), Read("a"))>>,
      <<PatternPair(ds(<<Lit(1), OooBinder("s")>>), Move("s")),
        PatternPair(Wildcard, Read("s"))>> }

RangePrograms ==
    { <<PatternPair(ds(<<IdP("a"), IdP("b")>>), Read("a")),
        PatternPair(ds(<<Lit(1), OooBinder("s"), Lit(2)>>), Const(10)),
        PatternPair(ds(<<ooo, IdP("a")>>), Read("a"))>>,
      <<PatternPair(ds(<<IdP("a"), OooBinder("s"), IdP("a")>>), Const(10)),
        PatternPair(ds(<<OooBinder("s")>>), Const(20))>>,
      <<PatternPair(ds(<<or_(<<aAnd2, not_(aAnd2)>>), ooo>>), Void)>>,
      <<PatternPair(ds(<<OooBinder("s"),
                         or_(<<and_(<<app("none", IdP("s")), Lit(2)>>),
                               Wildcard>>)>>), Const(10))>> }

\* a call match(value)(clauses...): the clauses and the scrutinee
Calls ==
    UNION { [clauses : IntPrograms, value : Ints],
            [clauses : PairPrograms, value : Pairs],
            [clauses : ArrayPrograms, value : Arrays],
            [clauses : RangePrograms, value : Ranges] }

(***************************************************************************)
(* The clause driver matchPatterns, run step by step: one step per         *)
(* evaluation of a clause's pattern, one for the handler of the clause     *)
(* that matched, one for the return to the caller.                         *)
(***************************************************************************)
VARIABLES
    cells,      \* the user-declared Id cells (their Blocks)
    pc,         \* "idle", "func", "execute" or "done"
    clauses,    \* the PatternPairs of the running call
    value,      \* the scrutinee of the running call, as forwarded
    idx,        \* the clause the fold over func is at
    attempt,    \* the matcher state of the latest clause attempt
    tried,      \* the clause attempts made so far, in order, with their
                \* results and whether they started from fresh cells
    executed,   \* the clauses whose handler has been run, in order
    result,     \* `RetType result`
    outcome,    \* how the call ended: "value", "void", "nomatch", "error"
    ncalls      \* number of driver calls started

vars == <<cells, pc, clauses, value, idx, attempt, tried, executed, result,
          outcome, ncalls>>

Init ==
    /\ cells = FreshCells
    /\ pc = "idle"
    /\ clauses = <<>>
    /\ value = Arg(None, FALSE)
    /\ idx = 0
    /\ attempt = NewMatch(FreshCells)
    /\ tried = <<>>
    /\ executed = <<>>
    /\ result = None
    /\ outcome = "none"
    /\ ncalls = 0

\* the user declares the cells anew: Id() = default
Declare ==
    /\ pc = "idle"
    /\ cells # FreshCells
    /\ cells' = FreshCells
    /\ UNCHANGED <<pc, clauses, value, idx, attempt, tried, executed, result,
                   outcome, ncalls>>

\* matchPatterns is entered with a scrutinee that is a variable of the
\* caller: `RetType result{}` and the fold starts at the first clause
Match ==
    /\ pc = "idle"
    /\ ncalls < MaxCalls
    /\ \E call \in Calls :
          /\ clauses' = call.clauses
          /\ value' = Arg(call.value, TRUE)
    /\ pc' = "func"
    /\ idx' = 1
    /\ attempt' = NewMatch(FreshCells)
    /\ tried' = <<>>
    /\ executed' = <<>>
    /\ result' = None
    /\ outcome' = "none"
    /\ ncalls' = ncalls + 1
    /\ UNCHANGED cells

\* PatternPair::matchValue: the clause's pattern at depth 0 with a fresh
\* context
PairMatchValue(pair, arg, cs) == matchPattern(arg, pair.pattern, 0, NewMatch(cs))

\* a driver that returns the value-initialised result when nothing matched
NoMatchOutcome_NeverThrows(cls) == IF RetTypeIsVoid(cls) THEN "void" ELSE "value"

\* a driver that raises in both forms when nothing matched
NoMatchOutcome_AlwaysThrows(cls) == "nomatch"

\* what the call does once every clause has failed: the expression form
\* throws std::logic_error, the statement form returns
NoMatchOutcome(cls) == IF RetTypeIsVoid(cls) THEN "void" ELSE "nomatch"

\* a func that takes an error raised during the attempt for a mismatch
MatchValue_SwallowsError ==
    /\ pc = "func"
    /\ LET st == PairMatchValue(clauses[idx], value, cells)
       IN  /\ attempt' = st
           /\ cells' = st.cells
           /\ tried' = Append(tried, [i |-> idx, res |-> st.res,
                                      exc |-> st.exc,
                                      fresh |-> cells = FreshCells])
           /\ IF st.res
              THEN pc' = "execute" /\ outcome' = outcome /\ idx' = idx
              ELSE IF idx < Len(clauses)
              THEN pc' = "func" /\ outcome' = outcome /\ idx' = idx + 1
              ELSE /\ pc' = "done"
                   /\ outcome' = NoMatchOutcome(clauses)
                   /\ idx' = idx
    /\ UNCHANGED <<clauses, value, executed, result, ncalls>>

\* func up to the test of pattern.matchValue(...), and the fold's step to
\* the next clause when it returns false
MatchValue ==
    /\ pc = "func"
    /\ LET st == PairMatchValue(clauses[idx], value, cells)
       IN  /\ attempt' = st
           /\ cells' = st.cells
           /\ tried' = Append(tried, [i |-> idx, res |-> st.res,
                                      exc |-> st.exc,
                                      fresh |-> cells = FreshCells])
           /\ IF st.exc
              THEN pc' = "done" /\ outcome' = "error" /\ idx' = idx
              ELSE IF st.res
              THEN pc' = "execute" /\ outcome' = outcome /\ idx' = idx
              ELSE IF idx < Len(clauses)
              THEN pc' = "func" /\ outcome' = outcome /\ idx' = idx + 1
              ELSE /\ pc' = "done"
                   /\ outcome' = NoMatchOutcome(clauses)
                   /\ idx' = idx
    /\ UNCHANGED <<clauses, value, executed, result, ncalls>>

\* processId(pattern, 0, IdProcess::kCANCEL) with pattern the PatternPair:
\* PatternTraits<PatternPair<...>> is the primary template
CancelPair(pair, cs) == processId(pair, 0, kCANCEL, cs)

\* a fold over func that does not stop at the clause that matched
Execute_FoldGoesOn ==
    /\ pc = "execute"
    /\ executed' = Append(executed, idx)
    /\ IF HandlerThrows(clauses[idx].handler, cells)
       THEN /\ outcome' = "error" /\ pc' = "done" /\ idx' = idx
            /\ UNCHANGED <<cells, result>>
       ELSE /\ result' = HandlerResult(clauses[idx].handler, cells)
            /\ cells' = CancelPair(clauses[idx], cells)
            /\ IF idx < Len(clauses)
               THEN pc' = "func" /\ idx' = idx + 1 /\ outcome' = outcome
               ELSE /\ pc' = "done" /\ idx' = idx
                    /\ outcome' = IF RetTypeIsVoid(clauses) THEN "void"
                                                            ELSE "value"
    /\ UNCHANGED <<clauses, value, attempt, tried, ncalls>>

\* the rest of func for the clause that matched: result = pattern.execute(),
\* processId, return true; the fold stops and the call returns
Execute ==
    /\ pc = "execute"
    /\ executed' = Append(executed, idx)
    /\ IF HandlerThrows(clauses[idx].handler, cells)
       THEN /\ outcome' = "error"
            /\ UNCHANGED <<cells, result>>
       ELSE /\ result' = HandlerResult(clauses[idx].handler, cells)
            /\ cells' = CancelPair(clauses[idx], cells)
            /\ outcome' = IF RetTypeIsVoid(clauses) THEN "void" ELSE "value"
    /\ pc' = "done"
    /\ UNCHANGED <<clauses, value, idx, attempt, tried, ncalls>>

\* The context is a local of func.  A cell of type Id<Subrange> that is still
\* bound when func is left holds a pointer to a context element that no
\* longer exists: what a later read through it yields is not defined, it may
\* be what the element held ("kept") or anything else ("other").
DeadReads == {"kept", "other"}
PointsIntoContext(block) ==
    block.mVariant.alt = "pointer" /\ block.mVariant.x.t = "range"
IsDangling(block) == block.mVariant.alt = "dangling"
DeadRead(v, how) ==
    IF how = "kept" THEN v
    ELSE IF v = RngV(<<>>) THEN RngV(<<IntV(1)>>) ELSE RngV(<<>>)
ContextDestroyed(cs, how) ==
    [c \in CellNames |->
        IF PointsIntoContext(cs[c])
        THEN [cs[c] EXCEPT !.mVariant =
                 [alt |-> "dangling", x |-> DeadRead(cs[c].mVariant.x, how)]]
        ELSE cs[c]]

\* control is back in the caller: the call's locals are gone, the cells stay
Return ==
    /\ pc = "done"
    /\ \E how \in DeadReads : cells' = ContextDestroyed(cells, how)
    /\ pc' = "idle"
    /\ clauses' = <<>>
    /\ value' = Arg(None, FALSE)
    /\ idx' = 0
    /\ attempt' = NewMatch(FreshCells)
    /\ tried' = <<>>
    /\ executed' = <<>>
    /\ result' = None
    /\ outcome' = "none"
    /\ UNCHANGED ncalls

Next == Declare \/ Match \/ MatchValue \/ Execute \/ Return

Spec == Init /\ [][Next]_vars

(***************************************************************************)
(* Properties of the clause driver.                                        *)
(***************************************************************************)
\* the latest clause attempt of the running call
LastTried == tried[Len(tried)]
\* the driver has returned normally after running a handler
ReturnedFromHandler ==
    pc = "done" /\ outcome \in {"value", "void"} /\ executed # <<>>
\* every clause has been tried and none matched or raised
NoClauseMatched ==
    /\ pc = "done"
    /\ Len(tried) = Len(clauses)
    /\ \A k \in 1..Len(tried) : ~tried[k].res /\ ~tried[k].exc

\* C1: when the driver returns after a clause matched and its handler
\* returned normally, every cell of the winning clause's pattern is empty.
C1_WinnerCellsEmptyAtReturn ==
    ReturnedFromHandler =>
        \A c \in IdsOf(clauses[executed[1]].pattern) : ~hasValue(cells[c])

\* C2: after a clause's pattern failed at depth 0, every cell of that
\* pattern is empty, both when the next clause is about to be tried and
\* when the driver has returned.
C2_FailedClauseCellsEmpty ==
    (pc \in {"func", "done"} /\ tried # <<>> /\ ~LastTried.res
                             /\ ~LastTried.exc) =>
        \A c \in IdsOf(clauses[LastTried.i].pattern) : ~hasValue(cells[c])

\* C2 witness: a clause has failed after binding a cell during the attempt,
\* and the next clause is about to be tried
C2_Witness ==
    /\ pc = "func" /\ tried # <<>> /\ ~LastTried.res /\ ~LastTried.exc
    /\ \E k \in 1..Len(attempt.log) : attempt.log[k].e = "bind"

\* C3: patterns are evaluated in source order, nothing is evaluated after a
\* clause has matched, the one handler run is that of the clause that
\* matched, and the expression form returns that handler's value.
C3_OrderedFirstMatch ==
    /\ \A k \in 1..Len(tried) : tried[k].i = k
    /\ \A k \in 1..Len(tried) : tried[k].res => k = Len(tried)
    /\ Len(executed) <= 1
    /\ executed # <<>> =>
          /\ tried # <<>> /\ LastTried.res /\ executed[1] = LastTried.i
    /\ pc = "execute" => (LastTried.res /\ idx = LastTried.i)
    /\ (pc = "done" /\ outcome = "value") =>
          /\ executed # <<>>
          /\ result = HandlerResult(clauses[executed[1]].handler,
                                    attempt.cells)

\* C3 witness: the first of several clauses that all match has been run and
\* its value returned
C3_Witness ==
    /\ pc = "done" /\ outcome = "value" /\ executed = <<1>>
    /\ Len(clauses) = 3 /\ clauses[3].pattern = Wildcard
    /\ result = IntV(10)

\* C4: in expression form, when no clause matched the driver raises NoMatch,
\* returns no value and has run no handler.
C4_NoMatchRaises ==
    (NoClauseMatched /\ ~RetTypeIsVoid(clauses)) =>
        outcome = "nomatch" /\ result = None /\ executed = <<>>

\* C4 witness: an expression-form call in which every clause failed
C4_Witness ==
    NoClauseMatched /\ ~RetTypeIsVoid(clauses) /\ Len(clauses) = 2

\* C5: in statement form, when no clause matched the driver returns
\* normally, raising nothing and running no handler.
C5_StatementNoMatchReturns ==
    (NoClauseMatched /\ RetTypeIsVoid(clauses)) =>
        outcome = "void" /\ executed = <<>>

\* C5 witness: a statement-form call in which every clause failed
C5_Witness ==
    NoClauseMatched /\ RetTypeIsVoid(clauses) /\ Len(clauses) = 2

(***************************************************************************)
(* Properties of the matcher, stated over the record of the latest clause  *)
(* attempt.  Entry k of the record with e = "ret" is a completed call of   *)
(* matchPattern; the entries after position `from` and before k were made  *)
(* during that call.                                                       *)
(***************************************************************************)
Log == attempt.log
RetEvents == {k \in 1..Len(Log) : Log[k].e = "ret"}
RetEventsOf(kind) == {k \in RetEvents : Log[k].pat.k = kind}
\* entry j was made during the call recorded by entry k
Inside(k, j) == Log[k].from < j /\ j < k
\* cell c was bound (written from empty) during the call recorded by entry k
BoundDuring(k, c) ==
    \E j \in 1..Len(Log) : Inside(k, j) /\ Log[j].e = "bind" /\ Log[j].c = c
\* callable f was invoked during the call recorded by entry k
CalledDuring(k, f) ==
    \E j \in 1..Len(Log) : Inside(k, j) /\ Log[j].e = "call" /\ Log[j].f = f
\* the completed calls on the children of the node of entry k: one level
\* deeper, or the binder of a ds at the depth of the ds itself
ChildrenOf(k) ==
    {j \in RetEvents :
        /\ Inside(k, j)
        /\ \/ Log[j].depth = Log[k].depth + 1 /\ Log[j].pat.k # "ooobinder"
           \/ /\ Log[k].pat.k = "ds" /\ Log[j].pat.k = "ooobinder"
              /\ Log[j].depth = Log[k].depth}
\* the position of child call j among the child calls J, in time order
Rank(J, j) == Cardinality({x \in J : x <= j})

\* the callables a pattern holds
RECURSIVE CallablesOf(_)
CallablesOf(pattern) ==
    CASE pattern.k = "meet" -> {pattern.f}
      [] pattern.k = "app" -> {pattern.f} \cup CallablesOf(pattern.p)
      [] pattern.k = "postcheck" -> {pattern.g} \cup CallablesOf(pattern.p)
      [] pattern.k = "not" -> CallablesOf(pattern.p)
      [] pattern.k \in {"or", "and", "ds"} ->
           UNION {CallablesOf(pattern.ps[i]) : i \in 1..Len(pattern.ps)}
      [] OTHER -> {}

\* C6: when matchPattern on a node returns false, every cell that was empty
\* when the call began is empty when it returns.
C6_FailedNodeLeavesNoBinding ==
    \A k \in RetEvents :
        ~Log[k].res =>
            \A c \in CellNames :
                ~hasValue(Log[k].before[c]) => ~hasValue(Log[k].after[c])

\* C7: after an alternative of an Or has failed, every cell bound during
\* that alternative is empty; and when the Or succeeds, a cell bound during
\* a failed alternative holds a value only if the winning alternative bound
\* it.
C7_FailedAlternativeRolledBack ==
    \A k \in RetEventsOf("or") : \A j \in ChildrenOf(k) : \A c \in CellNames :
        (~Log[j].res /\ BoundDuring(j, c)) =>
            /\ ~hasValue(Log[j].after[c])
            /\ (Log[k].res /\ hasValue(Log[k].after[c])) =>
                  \E w \in ChildrenOf(k) : Log[w].res /\ BoundDuring(w, c)

\* the alternatives of the Or of entry k that were evaluated, in time order
Alternatives(k) == ChildrenOf(k)

\* C8: the alternatives of an Or are evaluated in source order and none is
\* evaluated after one has matched: a later alternative's callables are not
\* invoked and its cells are not bound.
C8_OrShortCircuit ==
    \A k \in RetEventsOf("or") :
        LET J == Alternatives(k)
            ps == Log[k].pat.ps
            n == Cardinality(J)
            evaluated == UNION {CallablesOf(ps[i]) : i \in 1..n}
            touched == UNION {IdsOf(ps[i]) : i \in 1..n}
        IN  /\ n <= Len(ps)
            /\ \A j \in J : Log[j].pat = ps[Rank(J, j)]
            /\ \A j \in J : Log[j].res => Rank(J, j) = n
            /\ Log[k].res = (\E j \in J : Log[j].res)
            /\ \A i \in (n + 1)..Len(ps) :
                  /\ \A f \in CallablesOf(ps[i]) \ evaluated :
                        ~CalledDuring(k, f)
                  /\ \A c \in IdsOf(ps[i]) \ touched : ~BoundDuring(k, c)

\* C8 witness: an Or of three alternatives matched through its second one,
\* which bound a cell, and the third one holds a callable
C8_Witness ==
    \E k \in RetEventsOf("or") :
        /\ Log[k].res
        /\ Len(Log[k].pat.ps) = 3
        /\ Cardinality(Alternatives(k)) = 2
        /\ CallablesOf(Log[k].pat.ps[3]) # {}
        /\ \E c \in CellNames : BoundDuring(k, c)

\* a failed and_ or ds node one of whose children failed
FailedThroughChild(k) ==
    /\ Log[k].pat.k \in {"and", "ds"}
    /\ ~Log[k].res
    /\ \E j \in ChildrenOf(k) : ~Log[j].res

C10_NotHidesCaptures ==
    \A k \in RetEventsOf("not") :
        /\ Log[k].res = ~Log[k - 1].res
        /\ \A c \in CellNames :
              BoundDuring(k, c) => ~hasValue(Log[k].after[c])

(***************************************************************************)
(* Properties of identifier nodes and of ds with a splice.                 *)
(***************************************************************************)
\* the completed calls on the pattern ds(c, c) / and_(c, c) of one cell
TwiceOf(kind, c) == [k |-> kind, ps |-> <<IdP(c), IdP(c)>>]

\* C11: an Id node matched against v returns true iff its cell was empty
\* (and then the cell holds v) or the cell held a value equal to v, in which
\* case the cell's value is untouched; hence, entered with the cell empty,
\* ds(c, c) matches a pair iff its two elements are equal and and_(c, c)
\* matches every value.
C11_IdMatchesIffEmptyOrEqual ==
    /\ \A k \in RetEventsOf("id") :
          LET c == Log[k].pat.c
              was == Log[k].before[c]
          IN  /\ Log[k].res = (~hasValue(was)
                               \/ internalValue(was) = Log[k].val)
              /\ ~hasValue(was) =>
                    /\ hasValue(Log[k].mid[c])
                    /\ internalValue(Log[k].mid[c]) = Log[k].val
              /\ hasValue(was) => Log[k].mid[c] = was
    /\ \A k \in RetEvents : \A c \in CellNames :
          ~hasValue(Log[k].before[c]) =>
             /\ Log[k].pat = TwiceOf("ds", c) =>
                   Log[k].res = (Log[k].val.e[1] = Log[k].val.e[2])
             /\ Log[k].pat = TwiceOf("and", c) => Log[k].res

\* C11 witness: ds(a, a) was entered with a empty and failed on a pair of
\* different elements, after its first Id had bound the cell
C11_Witness ==
    \E k \in RetEvents :
        /\ Log[k].pat = TwiceOf("ds", "a")
        /\ ~hasValue(Log[k].before["a"])
        /\ ~Log[k].res
        /\ Log[k].val.e[1] # Log[k].val.e[2]
        /\ BoundDuring(k, "a")

\* the completed calls of a ds node on its splice ooo(id), made at the depth
\* of the ds itself
BinderCalls(k) ==
    {j \in RetEvents :
        /\ Inside(k, j)
        /\ Log[j].pat.k = "ooobinder"
        /\ Log[j].depth = Log[k].depth}
\* the completed calls of a ds node on the patterns it matches against single
\* elements, in time order
ElementCalls(k) ==
    {j \in RetEvents :
        /\ Inside(k, j)
        /\ Log[j].depth = Log[k].depth + 1
        /\ \A b \in BinderCalls(k) : ~Inside(b, j)}
\* the position (from 1) of the splice among the patterns of a ds
SpliceAt(ps) == CHOOSE i \in 1..Len(ps) : ps[i].k \in {"ooo", "ooobinder"}
\* the completed calls on a ds with one splice whose scrutinee is long enough
SplicedDs ==
    {k \in RetEventsOf("ds") :
        /\ Cardinality({i \in 1..Len(Log[k].pat.ps) :
                           Log[k].pat.ps[i].k \in {"ooo", "ooobinder"}}) = 1
        /\ Len(Log[k].val.e) >= Len(Log[k].pat.ps) - 1}

\* C12: in a ds of n patterns with one splice at position s (from 1) on a
\* scrutinee of L >= n-1 elements, the patterns before the splice are matched
\* against elements 1..s-1 in order, the patterns after it against the last
\* n-s elements ending at element L, the splice stands for the L-(n-1)
\* elements s..s+L-n, and prefix, splice and suffix cover every element once.
C12_SpliceCoversTheMiddle ==
    \A k \in SplicedDs :
        LET ps == Log[k].pat.ps
            es == Log[k].val.e
            n == Len(ps)
            L == Len(es)
            s == SpliceAt(ps)
            J == ElementCalls(k)
            PatOf(r) == IF r < s THEN r ELSE r + 1
            ElemOf(r) == IF r < s THEN r ELSE L - n + r + 1
            spliced == s..(s + L - n)
            single == {ElemOf(r) : r \in 1..(n - 1)}
        IN  /\ Cardinality(J) <= n - 1
            /\ Log[k].res => Cardinality(J) = n - 1
            /\ \A j \in J :
                  /\ Log[j].pat = ps[PatOf(Rank(J, j))]
                  /\ Log[j].val = es[ElemOf(Rank(J, j))]
            /\ \A b \in BinderCalls(k) :
                  Log[b].val = RngV([i \in 1..(L - (n - 1)) |-> es[s - 1 + i]])
            /\ Cardinality(spliced) = L - (n - 1)
            /\ Cardinality(single) = n - 1
            /\ spliced \cap single = {}
            /\ spliced \cup single = 1..L

\* C12 witness: a ds with patterns on both sides of its splice matched a
\* scrutinee in which the splice stands for at least one element
C12_Witness ==
    \E k \in SplicedDs :
        LET n == Len(Log[k].pat.ps)
            s == SpliceAt(Log[k].pat.ps)
        IN  /\ Log[k].res
            /\ 1 < s /\ s < n
            /\ Len(Log[k].val.e) > n - 1
            /\ Cardinality(ElementCalls(k)) = n - 1

\* the clause whose action is about to run has a ds pattern with a binding
\* splice
ActionOfBinderClause ==
    /\ pc = "execute"
    /\ clauses[idx].pattern.k = "ds"
    /\ \E i \in 1..Len(clauses[idx].pattern.ps) :
          clauses[idx].pattern.ps[i].k = "ooobinder"

\* C13: when a clause ds(..., ooo(cell), ...) has matched a scrutinee of L
\* elements, then while its action runs the cell refers to a live subrange
\* whose elements are elements s..s+L-n of the scrutinee, in order.
C13_BinderHoldsTheSplice ==
    ActionOfBinderClause =>
        LET ps == clauses[idx].pattern.ps
            es == value.v.e
            n == Len(ps)
            L == Len(es)
            s == SpliceAt(ps)
            c == ps[s].c
        IN  /\ hasValue(cells[c])
            /\ ~IsDangling(cells[c])
            /\ internalValue(cells[c]) =
                  RngV([i \in 1..(L - (n - 1)) |-> es[s - 1 + i]])

(***************************************************************************)
(* Properties of captures, guards and errors.                              *)
(***************************************************************************)
\* the completed call of entry j and every call enclosing it returned true
OnSuccessPath(j) ==
    /\ Log[j].res
    /\ \A k \in RetEvents : Inside(k, j) => Log[k].res
\* the completed calls on Id nodes that bound their (empty) cell
BindingIds ==
    {j \in RetEventsOf("id") : ~hasValue(Log[j].before[Log[j].pat.c])}

\* C14: while the action of the clause that matched runs, every cell that an
\* Id node (or the Id of a binding splice) bound on the successful match
\* path is non-empty, refers to something live and holds the value that
\* node was matched against.
C14_CapturesLiveInAction ==
    pc = "execute" =>
        \A j \in BindingIds :
            OnSuccessPath(j) =>
                LET c == Log[j].pat.c
                IN  /\ hasValue(cells[c])
                    /\ ~IsDangling(cells[c])
                    /\ internalValue(cells[c]) = Log[j].val

\* the driver has been left by an error raised by a callable of the pattern
\* of the clause being attempted
ErrorLeftTheDriver ==
    pc = "done" /\ outcome = "error" /\ tried # <<>> /\ LastTried.exc

\* C15: when a callable of an App, Meet or guard node raised during a clause
\* attempt and the error has left the driver, every cell of that clause's
\* pattern is empty.
C15_ErrorRollsBackCaptures ==
    ErrorLeftTheDriver =>
        \A c \in IdsOf(clauses[LastTried.i].pattern) : ~hasValue(cells[c])

\* the completed call on the pattern that a PostCheck node guards
GuardedCall(k) == CHOOSE j \in ChildrenOf(k) : Log[j].pat = Log[k].pat.p
\* the invocations of the predicate of the PostCheck node of entry k
PredCalls(k) ==
    {i \in 1..Len(Log) :
        /\ Inside(k, i)
        /\ Log[i].e = "call" /\ Log[i].kind = "when"
        /\ Log[i].f = Log[k].pat.g}
\* the call of entry i returned true and so did every call around it up to
\* the call of entry j
SucceededWithin(j, i) ==
    /\ Log[i].res
    /\ \A e \in RetEvents : (Inside(e, i) /\ e <= j) => Log[e].res
\* the latest clause attempt was on a guarded clause and returned false
GuardedClauseFailed ==
    /\ pc \in {"func", "done"}
    /\ tried # <<>> /\ ~LastTried.res /\ ~LastTried.exc
    /\ clauses[LastTried.i].pattern.k = "postcheck"

\* C16: the predicate of pattern | when(g) is invoked only after the
\* pattern has matched, at most once, with the pattern's captures bound; the
\* node matches iff the pattern matched and g() was true; and when a guarded
\* clause has failed its action has not run and every cell of its pattern is
\* empty when the next clause is tried.
C16_GuardAfterPattern ==
    /\ \A k \in RetEventsOf("postcheck") :
          LET j == GuardedCall(k)
          IN  /\ ChildrenOf(k) = {j}
              /\ \A i \in PredCalls(k) : j < i /\ Log[j].res
              /\ Cardinality(PredCalls(k)) = IF Log[j].res THEN 1 ELSE 0
              /\ Log[k].res = (Log[j].res /\ PredResult(Log[k].pat.g, Log[j].after))
              /\ Log[k].mid = Log[j].after
              /\ Log[j].res =>
                    \A i \in BindingIds :
                       ((i = j \/ Inside(j, i)) /\ SucceededWithin(j, i)) =>
                           /\ hasValue(Log[j].after[Log[i].pat.c])
                           /\ internalValue(Log[j].after[Log[i].pat.c]) = Log[i].val
    /\ GuardedClauseFailed =>
          /\ \A i \in 1..Len(executed) : executed[i] # LastTried.i
          /\ \A c \in IdsOf(clauses[LastTried.i].pattern) : ~hasValue(cells[c])

\* C16 witness: a guarded clause whose pattern matched and bound two cells
\* failed because its predicate, invoked once, returned false, and the next
\* clause is about to be tried
C16_Witness ==
    /\ GuardedClauseFailed /\ pc = "func"
    /\ \E k \in RetEventsOf("postcheck") :
          /\ Log[GuardedCall(k)].res /\ ~Log[k].res
          /\ Cardinality(PredCalls(k)) = 1
          /\ hasValue(Log[k].mid["a"]) /\ hasValue(Log[k].mid["b"])

\* the handler that was run and the cell it read or moved from, as the
\* match attempt left it
RanHandler == clauses[executed[1]].handler
HandlerCell == attempt.cells[RanHandler.c]
\* the variant of a block holds a Type const *
HoldsBorrow(block) == block.mVariant.alt \in {"pointer", "dangling"}

\* C17: value() on an empty cell raises, move() raises on an empty cell and
\* on a cell that holds a borrowed reference; no value is returned and the
\* cells are left as they were.
C17_EmptyOrBorrowedReadRaises ==
    (pc = "done" /\ executed # <<>>) =>
        /\ (RanHandler.h = "read" /\ ~hasValue(HandlerCell)) =>
              outcome = "error" /\ result = None /\ cells = attempt.cells
        /\ (RanHandler.h = "move"
              /\ (~hasValue(HandlerCell) \/ HoldsBorrow(HandlerCell))) =>
              outcome = "error" /\ result = None /\ cells = attempt.cells
        /\ (RanHandler.h = "move" /\ HandlerCell.mVariant.alt = "value") =>
              outcome = "value" /\ result = internalValue(HandlerCell)

\* C17 witness: a handler called move() on a cell holding a pointer to a
\* live subrange and the call ended with the error
C17_Witness ==
    /\ pc = "done" /\ executed # <<>>
    /\ RanHandler.h = "move"
    /\ HandlerCell.mVariant.alt = "pointer"
    /\ outcome = "error"

(***************************************************************************)
(* Properties of the recorded depth.                                       *)
(***************************************************************************)
\* the alternatives of an Or that returned false
FailedAlternatives ==
    {j \in RetEvents :
        ~Log[j].res /\ \E k \in RetEventsOf("or") : j \in Alternatives(k)}

\* C18: when an alternative of an Or has failed, every cell that was bound
\* when the alternative began holds the same value when it has returned.
C18_RollbackSparesEarlierBindings ==
    \A j \in FailedAlternatives : \A c \in CellNames :
        hasValue(Log[j].before[c]) =>
            Log[j].after[c].mVariant = Log[j].before[c].mVariant

\* C19: when matchPattern on an Id node at depth d has bound an empty cell
\* and returned true, the recorded depth of the cell is d.
C19_BindRecordsDepth ==
    \A j \in BindingIds :
        Log[j].res => Log[j].after[Log[j].pat.c].mDepth = Log[j].depth

\* C20: the reset(d) that follows a false result leaves a cell of the
\* pattern whose recorded depth m is at least d empty with recorded depth
\* d, and leaves a cell with m < d, like every cell the pattern does not
\* refer to, as it was.
C20_ResetByDepth ==
    \A k \in RetEvents :
        ~Log[k].res =>
            \A c \in CellNames :
                Log[k].after[c] =
                    IF c \in IdsOf(Log[k].pat)
                       /\ Log[k].mid[c].mDepth >= Log[k].depth
                    THEN [mVariant |-> monostate, mDepth |-> Log[k].depth]
                    ELSE Log[k].mid[c]

\* C20 witness: in one clause attempt a reset cleared a bound cell recorded
\* deeper than the failing node, and a reset left alone a bound cell
\* recorded above the failing node
C20_Witness ==
    /\ \E k \in RetEvents : \E c \in IdsOf(Log[k].pat) :
          /\ ~Log[k].res
          /\ hasValue(Log[k].mid[c])
          /\ Log[k].mid[c].mDepth > Log[k].depth
          /\ Log[k].depth >= 1
    /\ \E k \in RetEvents : \E c \in IdsOf(Log[k].pat) :
          /\ ~Log[k].res
          /\ hasValue(Log[k].mid[c])
          /\ Log[k].mid[c].mDepth < Log[k].depth
          /\ hasValue(Log[k].after[c])

\* C21: the confirm(d) that follows a true result sets the recorded depth m
\* of a cell of the pattern to d when m > d or m = 0 and leaves it as it was
\* otherwise; it never changes the value slot, and a cell the pattern does
\* not refer to is left as it was.
C21_ConfirmByDepth ==
    \A k \in RetEvents :
        Log[k].res =>
            \A c \in CellNames :
                /\ Log[k].after[c].mVariant = Log[k].mid[c].mVariant
                /\ Log[k].after[c].mDepth =
                      IF c \in IdsOf(Log[k].pat)
                         /\ (Log[k].mid[c].mDepth > Log[k].depth
                             \/ Log[k].mid[c].mDepth = 0)
                      THEN Log[k].depth
                      ELSE Log[k].mid[c].mDepth

\* C21 witness: in one clause attempt a confirm raised a recorded depth of 0,
\* a confirm lowered a recorded depth, and a confirm left a smaller non-zero
\* recorded depth of a bound cell alone
C21_Witness ==
    /\ \E k \in RetEvents : \E c \in IdsOf(Log[k].pat) :
          Log[k].res /\ Log[k].mid[c].mDepth = 0 /\ Log[k].depth > 0
    /\ \E k \in RetEvents : \E c \in IdsOf(Log[k].pat) :
          Log[k].res /\ Log[k].mid[c].mDepth > Log[k].depth
    /\ \E k \in RetEvents : \E c \in IdsOf(Log[k].pat) :
          /\ Log[k].res /\ hasValue(Log[k].mid[c])
          /\ 0 < Log[k].mid[c].mDepth /\ Log[k].mid[c].mDepth < Log[k].depth

(***************************************************************************)
(* Properties of the value slot.  The cells change in two kinds of step:   *)
(* the matchPatternImpl of a node that makes no nested call (before ->     *)
(* mid) and the processId that ends a call (mid -> after); the calls       *)
(* nested directly in a call hand the cells on from one to the next.       *)
(***************************************************************************)
\* the completed calls nested directly in the call of entry k
DirectCalls(k) ==
    {j \in (Log[k].from + 1)..(k - 1) :
        /\ Log[j].e = "ret"
        /\ \A i \in (j + 1)..(k - 1) : Log[i].e = "ret" => Log[i].from >= j}
\* the cells are handed unchanged from the entry of the call of entry k to
\* its first nested call, from each nested call to the next, and from the
\* last one to the processId of the call
HandedOn(k) ==
    LET D == DirectCalls(k)
    IN  /\ \A j \in D :
              Log[j].before =
                 IF \E i \in D : i < j
                 THEN Log[CHOOSE i \in D : i < j /\ \A x \in D : x < j => x <= i].after
                 ELSE Log[k].before
        /\ D # {} => Log[k].mid = Log[CHOOSE j \in D : \A x \in D : x <= j].after

\* C22: in no step of a clause attempt does a cell that holds a value come
\* to hold a different one: matchPatternImpl only writes an empty cell, and
\* only in an Id node of that cell; processId only empties.
C22_ValueNeverOverwritten ==
    \A k \in RetEvents :
      /\ HandedOn(k)
      /\ \A c \in CellNames :
        /\ DirectCalls(k) = {} =>
              /\ hasValue(Log[k].before[c]) =>
                    Log[k].mid[c].mVariant = Log[k].before[c].mVariant
              /\ (~hasValue(Log[k].before[c]) /\ hasValue(Log[k].mid[c])) =>
                    /\ Log[k].pat = IdP(c)
                    /\ internalValue(Log[k].mid[c]) = Log[k].val
        /\ hasValue(Log[k].after[c]) =>
              Log[k].after[c].mVariant = Log[k].mid[c].mVariant

\* C22 witness: an Id node met its cell holding a different value; the cell
\* kept its value through matchValue and was emptied by the reset
C22_Witness ==
    \E k \in RetEventsOf("id") :
        LET c == Log[k].pat.c
        IN  /\ hasValue(Log[k].before[c])
            /\ internalValue(Log[k].before[c]) # Log[k].val
            /\ Log[k].mid[c] = Log[k].before[c]
            /\ ~hasValue(Log[k].after[c])

\* the completed calls on Id nodes that found their cell holding a value
\* different from the value matched
MismatchedIds ==
    {k \in RetEventsOf("id") :
        /\ hasValue(Log[k].before[Log[k].pat.c])
        /\ internalValue(Log[k].before[Log[k].pat.c]) # Log[k].val}

\* C23 as stated: when an Id node has failed on a cell holding a different
\* value, the cell holds its previous value when matchPattern on the node
\* returns.
C23_MismatchKeepsValue ==
    \A k \in MismatchedIds :
        Log[k].after[Log[k].pat.c].mVariant = Log[k].before[Log[k].pat.c].mVariant

\* C23 amended: when an Id node at depth d has failed on a cell holding a
\* different value, matchValue has left the cell as it was and matchPattern
\* on the node has then cancelled at depth d: at return the cell is as it
\* was if its recorded depth is below d, and is empty with recorded depth d
\* otherwise.
C23_MismatchCancelsAtItsDepth ==
    \A k \in MismatchedIds :
        LET c == Log[k].pat.c
        IN  /\ ~Log[k].res
            /\ Log[k].mid[c] = Log[k].before[c]
            /\ Log[k].after[c] =
                  IF Log[k].before[c].mDepth < Log[k].depth
                  THEN Log[k].before[c]
                  ELSE [mVariant |-> monostate, mDepth |-> Log[k].depth]

\* C23 witness: an Id node below an Or failed on a cell that a sibling of
\* the Or had bound to a different value, and the cell kept that value
C23_Witness ==
    \E k \in MismatchedIds :
        /\ hasValue(Log[k].after[Log[k].pat.c])
        /\ Log[k].before[Log[k].pat.c].mDepth >= 1
        /\ \E o \in RetEventsOf("or") : Inside(o, k)

(***************************************************************************)
(* Properties of ds on a container, of and_, and of the order of           *)
(* evaluation.                                                             *)
(***************************************************************************)
\* the completed calls on a ds node whose scrutinee is a container
RangeDs == {k \in RetEventsOf("ds") : Log[k].val.t = "range"}
\* the number of splices among the patterns of a ds
NbSplices(ps) ==
    Cardinality({i \in 1..Len(ps) : ps[i].k \in {"ooo", "ooobinder"}})
\* the call of entry k evaluated nothing: it made no nested call, invoked
\* nothing, bound no cell and pushed nothing to the context
EvaluatedNothing(k) ==
    /\ Log[k].from = k - 1
    /\ Log[k].mid = Log[k].before
    /\ Log[k].ctx = Log[k].ctx0

\* C24: a ds of n patterns on a container of L elements returns false
\* without evaluating anything when it has no splice and L # n, and when it
\* has one splice and L < n-1; with no splice and L = n it matches pattern i
\* against element i in order up to the first one that fails, and matches
\* iff none fails.
C24_RangeArity ==
    \A k \in RangeDs :
        LET ps == Log[k].pat.ps
            es == Log[k].val.e
            n == Len(ps)
            L == Len(es)
            J == ElementCalls(k)
        IN  /\ (NbSplices(ps) = 0 /\ L # n) => (~Log[k].res /\ EvaluatedNothing(k))
            /\ (NbSplices(ps) = 1 /\ L < n - 1) =>
                  (~Log[k].res /\ EvaluatedNothing(k))
            /\ (NbSplices(ps) = 0 /\ L = n) =>
                  /\ Cardinality(J) >= 1 /\ Cardinality(J) <= n
                  /\ \A j \in J :
                        /\ Log[j].pat = ps[Rank(J, j)]
                        /\ Log[j].val = es[Rank(J, j)]
                        /\ Rank(J, j) < Cardinality(J) => Log[j].res
                  /\ Log[k].res =
                        (Cardinality(J) = n /\ \A j \in J : Log[j].res)
                  /\ Cardinality(J) < n => \E j \in J : ~Log[j].res

\* C24 witness: a ds without splice has failed on a container that has
\* more elements than the ds has patterns, and the next clause is about to
\* be tried
C24_Witness ==
    /\ pc = "func"
    /\ \E k \in RangeDs :
          /\ NbSplices(Log[k].pat.ps) = 0
          /\ Len(Log[k].val.e) > Len(Log[k].pat.ps)
          /\ ~Log[k].res
          /\ ElementCalls(k) = {}

\* the pattern and_(app(f, c), app(g, c))
BothApps(f, g, c) == and_(<<app(f, IdP(c)), app(g, IdP(c))>>)

\* C25: and_ matches its children in order against the value it was given,
\* up to the first that fails, and matches iff none fails; the cells are
\* handed from each child to the next, so that what a child bound on its
\* successful path is still in place when the next child begins; hence,
\* entered with c empty, and_(app(f, c), app(g, c)) matches v iff
\* f(v) = g(v).
C25_AndSharesCells ==
    \A k \in RetEventsOf("and") :
        LET ps == Log[k].pat.ps
            n == Len(ps)
            J == ChildrenOf(k)
        IN  /\ Cardinality(J) >= 1 /\ Cardinality(J) <= n
            /\ \A j \in J :
                  /\ Log[j].pat = ps[Rank(J, j)]
                  /\ Log[j].val = Log[k].val
                  /\ Rank(J, j) < Cardinality(J) => Log[j].res
            /\ Log[k].res = (Cardinality(J) = n /\ \A j \in J : Log[j].res)
            /\ HandedOn(k)
            /\ \A j, j2 \in J : \A i \in BindingIds :
                  (j < j2 /\ (i = j \/ Inside(j, i)) /\ SucceededWithin(j, i)) =>
                      /\ hasValue(Log[j2].before[Log[i].pat.c])
                      /\ internalValue(Log[j2].before[Log[i].pat.c]) = Log[i].val
            /\ \A c \in CellNames : \A f, g \in {"inc", "two", "self"} :
                  (Log[k].pat = BothApps(f, g, c) /\ ~hasValue(Log[k].before[c])) =>
                      Log[k].res = (AppResult(f, Log[k].val) = AppResult(g, Log[k].val))

\* C25 witness: and_(app(inc, a), app(two, a)) was entered with a empty and
\* matched, a holding the one result of both functions when the second
\* child began
C25_Witness ==
    \E k \in RetEventsOf("and") :
        /\ Log[k].pat = BothApps("inc", "two", "a")
        /\ ~hasValue(Log[k].before["a"])
        /\ Log[k].res
        /\ internalValue(Log[k].after["a"]) = IntV(2)
        /\ Cardinality(ChildrenOf(k)) = 2

\* the completed calls of an and_ or ds node on its children, in time order
NodeChildren(k) ==
    IF Log[k].pat.k = "ds" THEN ElementCalls(k) \cup BinderCalls(k)
                           ELSE ChildrenOf(k)
\* the positions of the patterns of a node that are matched by a call of
\* matchPattern: all but a plain ooo
EvalPositions(ps) == {i \in 1..Len(ps) : ps[i].k # "ooo"}
\* the r-th of these positions
PosOf(ps, r) ==
    CHOOSE i \in EvalPositions(ps) :
        Cardinality({x \in EvalPositions(ps) : x <= i}) = r

\* C26: an and_ or ds node evaluates its children in source order (in a ds:
\* prefix, binding splice, suffix), every child before the last one
\* evaluated returned true, and once a child has failed no callable of a
\* later child is invoked and no cell of a later child is bound.
C26_LeftToRightStopAtFailure ==
    \A k \in RetEventsOf("and") \cup RetEventsOf("ds") :
        LET ps == Log[k].pat.ps
            J == NodeChildren(k)
            m == Cardinality(J)
            P == EvalPositions(ps)
            done == {PosOf(ps, r) : r \in 1..m}
            evaluated == UNION {CallablesOf(ps[i]) : i \in done}
            touched == UNION {IdsOf(ps[i]) : i \in done}
        IN  /\ m <= Cardinality(P)
            /\ \A j \in J :
                  /\ Log[j].pat = ps[PosOf(ps, Rank(J, j))]
                  /\ Rank(J, j) < m => Log[j].res
            /\ Log[k].res => m = Cardinality(P)
            /\ (\E j \in J : ~Log[j].res) =>
                  /\ ~Log[k].res
                  /\ \A i \in P \ done :
                        /\ \A f \in CallablesOf(ps[i]) \ evaluated :
                              ~CalledDuring(k, f)
                        /\ \A c \in IdsOf(ps[i]) \ touched : ~BoundDuring(k, c)

\* C26 witness: a ds failed through a child that is not its last one, and a
\* later child holds a callable
C26_Witness ==
    \E k \in RetEventsOf("ds") :
        LET ps == Log[k].pat.ps
            m == Cardinality(NodeChildren(k))
        IN  /\ ~Log[k].res
            /\ m >= 1 /\ m < Cardinality(EvalPositions(ps))
            /\ \E i \in EvalPositions(ps) :
                  /\ i > PosOf(ps, m)
                  /\ CallablesOf(ps[i]) # {}

(***************************************************************************)
(* Properties of errors, of the context and of repeated calls.             *)
(***************************************************************************)
\* C27: when a callable of a pattern has raised during a clause attempt,
\* the call ends with that error: that attempt is the last one, no action
\* is run, no value is returned and NoMatch is not signalled.
C27_ErrorPropagates ==
    /\ \A k \in 1..Len(tried) : tried[k].exc => k = Len(tried)
    /\ (tried # <<>> /\ LastTried.exc) =>
          /\ pc = "done"
          /\ outcome = "error"
          /\ executed = <<>>
          /\ result = None
          /\ idx = LastTried.i

\* C27 witness: the guard of the first of two clauses raised after the
\* pattern had bound a cell, and the call has ended with the error
C27_Witness ==
    /\ ErrorLeftTheDriver
    /\ Len(tried) = 1 /\ Len(clauses) = 2
    /\ clauses[1].pattern.k = "postcheck"
    /\ \E k \in 1..Len(Log) : Log[k].e = "bind"

\* sequence a is an initial part of sequence b
IsPrefix(a, b) == Len(a) <= Len(b) /\ a = SubSeq(b, 1, Len(a))
\* the invocations, during the call of entry k, of App functions whose
\* result is kept in the context
ByValueAppCalls(k) ==
    {i \in 1..Len(Log) :
        /\ Inside(k, i)
        /\ Log[i].e = "call" /\ Log[i].kind = "app"
        /\ Log[i + 1].e # "throw"
        /\ Log[i].f \in {"dup", "none"}}
\* the completed calls on ds nodes, in or at the call of entry k, that
\* materialised the subrange of their binding splice
Materialised(k) ==
    {j \in RetEventsOf("ds") :
        /\ (j = k \/ Inside(k, j))
        /\ \E i \in 1..Len(Log[j].pat.ps) : Log[j].pat.ps[i].k = "ooobinder"
        /\ Log[j].val.t \in {"array", "range"}
        /\ Len(Log[j].val.e) >= Len(Log[j].pat.ps) - 1}

\* C28: a clause attempt starts with an empty context; the context only
\* grows, by one entry per App result kept by value and one per
\* materialised subrange; each call finds the entries made before it, and
\* the number of entries never exceeds the capacity computed from the
\* clauses and the type of the scrutinee.
C28_ContextAppendOnlyWithinCapacity ==
    /\ pc # "idle" =>
          Len(attempt.ctx) <= ContextCapacity(clauses, value.v, 1)
    /\ \A k \in RetEvents :
          LET D == DirectCalls(k)
          IN  /\ IsPrefix(Log[k].ctx0, Log[k].ctx)
              /\ (\A j \in RetEvents : ~Inside(j, k)) => Log[k].ctx0 = <<>>
              /\ \A j \in D :
                    /\ IsPrefix(Log[k].ctx0, Log[j].ctx0)
                    /\ IsPrefix(Log[j].ctx, Log[k].ctx)
                    /\ \A i \in D : i < j => IsPrefix(Log[i].ctx, Log[j].ctx0)
              /\ Len(Log[k].ctx) - Len(Log[k].ctx0) =
                    Cardinality(ByValueAppCalls(k)) + Cardinality(Materialised(k))

\* C28 witness: a clause attempt has filled the context to its capacity of
\* two entries, a subrange and an App result
C28_Witness ==
    /\ pc = "execute"
    /\ Len(attempt.ctx) = 2
    /\ ContextCapacity(clauses, value.v, 1) = 2
    /\ \E k \in RetEvents :
          /\ k = Len(Log)
          /\ Cardinality(ByValueAppCalls(k)) = 1
          /\ Cardinality(Materialised(k)) = 1

\* the running call started with every cell empty and at recorded depth 0
StartedFresh == tried # <<>> /\ tried[1].fresh
\* no callable has raised in the running call so far
NothingRaised ==
    /\ \A k \in 1..Len(tried) : ~tried[k].exc
    /\ outcome # "error"
\* the condition asserted in Block::confirm holds at the confirm(depth) of
\* cell c made when the call of entry k returns true
ConfirmAssertion(k, c) ==
    LET m == Log[k].mid[c].mDepth
        d == Log[k].depth
    IN  (m > d \/ m = 0) => (d = m - 1 \/ d = m \/ m = 0)

\* C29: in a driver call that started with fresh cells and in which nothing
\* raises, every confirm(d) made by a successful call finds the cell's
\* recorded depth m either 0, or at most d, or exactly d + 1.
C29_ConfirmAssertionHolds ==
    (StartedFresh /\ NothingRaised) =>
        \A k \in RetEvents :
            Log[k].res =>
                \A c \in IdsOf(Log[k].pat) :
                    /\ ConfirmAssertion(k, c)
                    /\ (Log[k].mid[c].mDepth > Log[k].depth
                        /\ Log[k].mid[c].mDepth # 0)
                          => Log[k].mid[c].mDepth = Log[k].depth + 1

\* C29 witness: in the second clause attempt of such a call a confirm(d)
\* lowers a recorded depth of d + 1
C29_Witness ==
    /\ StartedFresh /\ NothingRaised
    /\ Len(tried) = 2
    /\ \E k \in RetEvents : \E c \in IdsOf(Log[k].pat) :
          /\ Log[k].res
          /\ Log[k].mid[c].mDepth = Log[k].depth + 1
          /\ Log[k].after[c].mDepth = Log[k].depth

\* the fold over func from clause i on, started on cells cs: the clause
\* selected (0 when none is), whether an attempt raised, and the cells at
\* that point
RECURSIVE Fold(_, _, _, _)
Fold(cls, arg, i, cs) ==
    LET st == PairMatchValue(cls[i], arg, cs)
    IN  IF st.exc THEN [sel |-> 0, exc |-> TRUE, cells |-> st.cells]
        ELSE IF st.res THEN [sel |-> i, exc |-> FALSE, cells |-> st.cells]
        ELSE IF i < Len(cls) THEN Fold(cls, arg, i + 1, st.cells)
        ELSE [sel |-> 0, exc |-> FALSE, cells |-> st.cells]
\* the driver has returned from the first call made with the cells since
\* they were declared, and no callable or handler raised in it
FirstCallCompleted == pc = "done" /\ ncalls = 1 /\ outcome # "error"

\* C30: after a call that completed, any call made with the cells it leaves
\* selects the clause that the same call with fresh cells selects (or none,
\* as it does), and the cells of the selected clause's pattern hold the
\* values they hold there.
C30_OutcomeIndependentOfUsedCells ==
    FirstCallCompleted =>
        \A how \in DeadReads : \A call \in Calls :
            LET arg == Arg(call.value, TRUE)
                used == Fold(call.clauses, arg, 1, ContextDestroyed(cells, how))
                fresh == Fold(call.clauses, arg, 1, FreshCells)
            IN  ~fresh.exc =>
                  /\ ~used.exc
                  /\ used.sel = fresh.sel
                  /\ fresh.sel # 0 =>
                        \A c \in IdsOf(call.clauses[fresh.sel].pattern) :
                            used.cells[c].mVariant = fresh.cells[c].mVariant
====
